---- MODULE Spec2Model ----
(***************************************************************************)
(* Model of system/updated/updated.py: the casync update orchestrator.    *)
(* One process runs main(): a polling loop that fetches the remote        *)
(* channel data, extracts the release into the staging directory          *)
(* (CASYNC_PATH) and copies it into FINALIZED under the protection of the *)
(* .overlay_consistent marker.  The environment answers the fetches,      *)
(* delivers user signals, kills the process and cuts the power.           *)
(***************************************************************************)
EXTENDS Naturals, Sequences, FiniteSets, TLC

\* ------------------------------------------------------------- bounds
\* commits a channel can serve are 1..MaxCommit
MaxCommit == 3

\* ------------------------------------------------------------- values
Channels == {"A", "B"}
Commits == 1..MaxCommit

\* the files of a release tree: the build metadata file and one data file
Files == {"meta", "data"}
\* the entries of FINALIZED: the directory itself, the files, the marker
DirEntry == "."
MarkerFile == ".overlay_consistent"
FinEntries == Files \cup {DirEntry, MarkerFile}

\* what a directory entry holds: nothing, a plain entry (directory or
\* marker), or the content of that file in the release (channel, commit)
NoFile == [channel |-> "-", commit |-> 0]
Present == [channel |-> "+", commit |-> 0]
Release(ch, c) == [channel |-> ch, commit |-> c]
Releases == {Release(ch, c) : ch \in Channels, c \in Commits}

\* the release the device runs
BaseRelease == Release("A", 1)

\* Python's None for a BuildMetadata, and the metadata get_build_metadata
\* reports for a directory that has no metadata file
NoneMeta == [channel |-> "None", commit |-> 0]
UnknownMeta == [channel |-> "unknown", commit |-> 0]

EmptyTree == [f \in Files |-> NoFile]
TreeOf(rel) == [f \in Files |-> rel]
EmptyFinalized == [e \in FinEntries |-> NoFile]

\* UpdaterState
IDLE == "idle"
CHECKING == "checking..."
DOWNLOADING == "downloading..."
FINALIZING == "finalizing update..."
FAILED == "failed to check for update..."

\* UserRequest
REQ_NONE == "NONE"
REQ_CHECK == "CHECK"
REQ_FETCH == "FETCH"

VARIABLES
  \* environment
  basedir,            \* BASEDIR, the running installation: file -> content
  baseIsGit,          \* BASEDIR is a git working copy, not a plain release
  targetParam,        \* Params "UpdaterTargetBranch" ("None" when unset)
  published,          \* Params UpdaterState, UpdaterFetchAvailable, UpdateAvailable
  staging,            \* CASYNC_PATH: file -> content
  finalized,          \* FINALIZED as the running system sees it: entry -> content
  finDisk,            \* FINALIZED on persistent storage: entry -> set of contents
                      \* a power cut may leave there
  \* the process
  pc,
  target_channel, user_requested_check, update_ready, update_available,
  remote_build_metadata, remote_manifest,
  user_request, ready_event,   \* WaitTimeHelper
  \* history
  cyclePublished,     \* the states published since the loop iteration began
  cycleStart,         \* staging and finalized when the loop iteration began
  finalizedFrom,      \* the staging tree finalize_update was last called on
  flagCalls,          \* calls of set_consistent_flag in this iteration
  crashedAt, crashCause

baseVars == <<basedir, baseIsGit>>
envVars == <<baseVars, targetParam>>
diskVars == <<staging, finalized, finDisk>>
localVars == <<target_channel, user_requested_check, update_ready, update_available,
               remote_build_metadata, remote_manifest>>
waitVars == <<user_request, ready_event>>
histVars == <<cyclePublished, cycleStart, finalizedFrom, flagCalls>>
crashVars == <<crashedAt, crashCause>>
vars == <<envVars, diskVars, localVars, waitVars, histVars, crashVars, published, pc>>


\* ------------------------------------------------------------- helpers
\* get_build_metadata(directory): the identity in the directory's metadata file
get_build_metadata(tree) ==
  IF tree["meta"] = NoFile THEN UnknownMeta ELSE tree["meta"]

\* get_consistent_flag(FINALIZED): the marker file exists
get_consistent_flag(fin) == fin[MarkerFile] # NoFile

\* the files of FINALIZED, without the directory entry and the marker
FilesOfFinalized(fin) == [f \in Files |-> fin[f]]

\* the commits a channel can serve: channel A carries the releases, channel B
\* is a second track that carries the commit the device runs
Served(channel) == IF channel = "A" THEN Commits ELSE {BaseRelease.commit}

\* the answer of GET /channels/<channel> when the channel serves commit c:
\* the build metadata, and a manifest whose "path" entry for /data/openpilot
\* (if it has one) names the casync index of that release
RemoteMetadata(channel, c) == Release(channel, c)
RemoteManifest(channel, c, hasPath) ==
  [hasPath |-> hasPath, release |-> RemoteMetadata(channel, c)]
NoneManifest == [hasPath |-> FALSE, release |-> NoneMeta]

\* set_status_params(state, update_available, update_ready)
StatusParams(state, ua, ur) == [state |-> state, fetch_available |-> ua, ready |-> ur]

set_status_params(state, ua, ur) ==
  /\ published' = StatusParams(state, ua, ur)
  /\ cyclePublished' = Append(cyclePublished, StatusParams(state, ua, ur))

\* a comparison that reports every remote release as an update
check_update_available_always(tree, other) == TRUE

\* check_update_available(current_directory, other_metadata)
check_update_available(tree, other) ==
  LET build_metadata == get_build_metadata(tree)
  IN  \/ build_metadata.channel # build_metadata.channel
      \/ build_metadata.commit # other.commit

NoCycle == [staging |-> EmptyTree, finalized |-> EmptyFinalized]

\* os.sync(): what the system sees is what the storage holds
Synced(fin) == [e \in FinEntries |-> {fin[e]}]

\* a write of entry e that is not flushed yet
WriteEntry(e, v) ==
  /\ finalized' = [finalized EXCEPT ![e] = v]
  /\ finDisk' = [finDisk EXCEPT ![e] = @ \cup {v}]

\* ------------------------------------------------------------- Init
Init ==
  /\ basedir = TreeOf(BaseRelease)
  /\ baseIsGit \in BOOLEAN
  /\ targetParam = "None"
  /\ published = StatusParams(IDLE, FALSE, FALSE)
  /\ staging = EmptyTree
  /\ finalized = EmptyFinalized
  /\ finDisk = Synced(EmptyFinalized)
  /\ pc = "start"
  /\ target_channel = "None"
  /\ user_requested_check = FALSE
  /\ update_ready = FALSE
  /\ update_available = FALSE
  /\ remote_build_metadata = NoneMeta
  /\ remote_manifest = NoneManifest
  /\ user_request = REQ_NONE
  /\ ready_event = FALSE
  /\ cyclePublished = << >>
  /\ cycleStart = NoCycle
  /\ finalizedFrom = EmptyTree
  /\ flagCalls = 0
  /\ crashedAt = "-"
  /\ crashCause = "-"

\* ------------------------------------------------------------- main()
\* lines 123-126: publish CHECKING, construct the WaitTimeHelper
Start ==
  /\ pc = "start"
  /\ set_status_params(CHECKING, FALSE, FALSE)
  /\ user_request' = REQ_NONE
  /\ ready_event' = FALSE
  /\ pc' = "loop"
  /\ UNCHANGED <<envVars, diskVars, localVars, crashVars,
                 cycleStart, finalizedFrom, flagCalls>>

\* lines 129-136: clear the wake event, resolve the target channel
LoopTop ==
  /\ pc = "loop"
  /\ ready_event' = FALSE
  /\ IF targetParam = "None"
       THEN /\ target_channel' = get_build_metadata(basedir).channel
            /\ targetParam' = get_build_metadata(basedir).channel
       ELSE /\ target_channel' = targetParam
            /\ UNCHANGED targetParam
  /\ cyclePublished' = << >>
  /\ cycleStart' = [staging |-> staging, finalized |-> finalized]
  /\ flagCalls' = 0
  /\ pc' = "check"
  /\ UNCHANGED <<baseVars, diskVars,
                 user_requested_check, update_ready, update_available,
                 remote_build_metadata, remote_manifest, user_request,
                 finalizedFrom, crashVars, published>>

\* lines 138-144: read the user request, publish CHECKING, read the marker
LoopCheck ==
  /\ pc = "check"
  /\ user_requested_check' = (user_request = REQ_CHECK)
  /\ set_status_params(CHECKING, FALSE, FALSE)
  /\ update_ready' = get_consistent_flag(finalized)
  /\ pc' = "fetch"
  /\ UNCHANGED <<envVars, diskVars, target_channel, update_available,
                 remote_build_metadata, remote_manifest, waitVars,
                 cycleStart, finalizedFrom, flagCalls, crashVars>>

\* lines 149-152: update_available, with the suppression for a finalized
\* tree that is ready and is already the remote's
UpdateAvailable_nosuppress(ready, rbm) == check_update_available(basedir, rbm)

\* line 151 looking at BASEDIR where it should look at FINALIZED
UpdateAvailable_ofBasedir(ready, rbm) ==
  IF ready /\ ~check_update_available(basedir, rbm)
    THEN FALSE
    ELSE check_update_available(basedir, rbm)

UpdateAvailable(ready, rbm) ==
  IF ready /\ ~check_update_available(FilesOfFinalized(finalized), rbm)
    THEN FALSE
    ELSE check_update_available(basedir, rbm)

\* lines 146-154: the fetch succeeds, the channel serving commit c at that
\* moment; compute update_available, publish IDLE
FetchOK(c, hasPath) ==
  /\ pc = "fetch"
  /\ c \in Served(target_channel)
  /\ remote_build_metadata' = RemoteMetadata(target_channel, c)
  /\ remote_manifest' = RemoteManifest(target_channel, c, hasPath)
  /\ LET ua == UpdateAvailable(update_ready, RemoteMetadata(target_channel, c))
     IN  /\ update_available' = ua
         /\ set_status_params(IDLE, ua, update_ready)
  /\ pc' = "decide"
  /\ UNCHANGED <<envVars, diskVars, target_channel, user_requested_check,
                 update_ready, waitVars, cycleStart, finalizedFrom, flagCalls,
                 crashVars>>

\* a main() that publishes FAILED and then lets the process end
FetchFail_exits ==
  /\ pc = "fetch"
  /\ set_status_params(FAILED, FALSE, FALSE)
  /\ pc' = "crashed"
  /\ crashedAt' = pc
  /\ crashCause' = "fetch"
  /\ target_channel' = "None"
  /\ user_requested_check' = FALSE
  /\ update_ready' = FALSE
  /\ update_available' = FALSE
  /\ remote_build_metadata' = NoneMeta
  /\ remote_manifest' = NoneManifest
  /\ user_request' = REQ_NONE
  /\ ready_event' = FALSE
  /\ UNCHANGED <<envVars, diskVars, cycleStart, finalizedFrom, flagCalls>>

\* lines 146-148, 175: get_remote_channel_data returns (None, None)
FetchFail_keepsReady ==
  /\ pc = "fetch"
  /\ remote_build_metadata' = NoneMeta
  /\ remote_manifest' = NoneManifest
  /\ set_status_params(FAILED, FALSE, update_ready)
  /\ pc' = "reset"
  /\ UNCHANGED <<envVars, diskVars, target_channel, user_requested_check,
                 update_ready, update_available, waitVars, cycleStart,
                 finalizedFrom, flagCalls, crashVars>>

FetchFail ==
  /\ pc = "fetch"
  /\ remote_build_metadata' = NoneMeta
  /\ remote_manifest' = NoneManifest
  /\ set_status_params(FAILED, FALSE, FALSE)
  /\ pc' = "reset"
  /\ UNCHANGED <<envVars, diskVars, target_channel, user_requested_check,
                 update_ready, update_available, waitVars, cycleStart,
                 finalizedFrom, flagCalls, crashVars>>

\* a main() that downloads whenever an update is available, although the user
\* asked for a check only
Decide_downloadsOnCheck ==
  /\ pc = "decide"
  /\ IF update_available
       THEN /\ update_available' = FALSE
            /\ set_status_params(DOWNLOADING, FALSE, FALSE)
            /\ pc' = "download"
       ELSE /\ set_status_params(IDLE, update_available, update_ready)
            /\ pc' = "reset"
            /\ UNCHANGED update_available
  /\ UNCHANGED <<envVars, diskVars, target_channel, user_requested_check,
                 update_ready, remote_build_metadata, remote_manifest,
                 waitVars, cycleStart, finalizedFrom, flagCalls, crashVars>>

\* a main() that publishes DOWNLOADING with the update_ready it read at line 142
Decide_keepsReady ==
  /\ pc = "decide"
  /\ IF update_available /\ ~user_requested_check
       THEN /\ update_available' = FALSE
            /\ set_status_params(DOWNLOADING, FALSE, update_ready)
            /\ pc' = "download"
       ELSE /\ set_status_params(IDLE, update_available, update_ready)
            /\ pc' = "reset"
            /\ UNCHANGED update_available
  /\ UNCHANGED <<envVars, diskVars, target_channel, user_requested_check,
                 update_ready, remote_build_metadata, remote_manifest,
                 waitVars, cycleStart, finalizedFrom, flagCalls, crashVars>>

\* lines 156-161 and 173: start the download, or publish IDLE and end
Decide ==
  /\ pc = "decide"
  /\ IF update_available /\ ~user_requested_check
       THEN /\ update_available' = FALSE
            /\ set_status_params(DOWNLOADING, FALSE, FALSE)
            /\ pc' = "download"
       ELSE /\ set_status_params(IDLE, update_available, update_ready)
            /\ pc' = "reset"
            /\ UNCHANGED update_available
  /\ UNCHANGED <<envVars, diskVars, target_channel, user_requested_check,
                 update_ready, remote_build_metadata, remote_manifest,
                 waitVars, cycleStart, finalizedFrom, flagCalls, crashVars>>

\* the locals of main() hold nothing that is read again
DeadLocals ==
  /\ target_channel' = "None"
  /\ user_requested_check' = FALSE
  /\ update_ready' = FALSE
  /\ update_available' = FALSE
  /\ remote_build_metadata' = NoneMeta
  /\ remote_manifest' = NoneManifest

\* an uncaught exception ends the process, and its memory with it
Raise(cause) ==
  /\ pc' = "crashed"
  /\ crashedAt' = pc
  /\ crashCause' = cause
  /\ DeadLocals
  /\ user_request' = REQ_NONE
  /\ ready_event' = FALSE

\* ------------------------------------------------------------- download_update
\* the manifest has an entry of type "path" for /data/openpilot
HasPathEntry(manifest) == manifest.hasPath

\* the tree the entry's caidx describes
TargetTree(manifest) == TreeOf(manifest.release)

\* line 107: casync extract writes one more file of the target into CASYNC_PATH
ExtractStep ==
  /\ pc = "download"
  /\ HasPathEntry(remote_manifest)
  /\ \E f \in Files :
       /\ staging[f] # TargetTree(remote_manifest)[f]
       /\ staging' = [staging EXCEPT ![f] = TargetTree(remote_manifest)[f]]
  /\ UNCHANGED <<envVars, finalized, finDisk, localVars, waitVars, histVars,
                 crashVars, published, pc>>

\* run_cmd reports a command that exits non-zero by raising: what it returns
\* is the command's output (line 89)
run_cmd_raises == TRUE

\* line 107: casync extract fails; run_cmd raises and nothing in
\* download_update or main catches it
ExtractFail_clearsFlag ==
  /\ pc = "download"
  /\ HasPathEntry(remote_manifest)
  /\ run_cmd_raises
  /\ Raise("extract")
  /\ WriteEntry(MarkerFile, NoFile)
  /\ flagCalls' = flagCalls + 1
  /\ UNCHANGED <<envVars, staging, cyclePublished, cycleStart, finalizedFrom,
                 published>>

ExtractFail ==
  /\ pc = "download"
  /\ HasPathEntry(remote_manifest)
  /\ run_cmd_raises
  /\ Raise("extract")
  /\ UNCHANGED <<envVars, diskVars, histVars, published>>

\* lines 105-107 done, 164-168: publish FINALIZING and enter finalize_update
ExtractDone ==
  /\ pc = "download"
  /\ HasPathEntry(remote_manifest) => staging = TargetTree(remote_manifest)
  /\ set_status_params(FINALIZING, FALSE, FALSE)
  /\ pc' = "fin_sync1"
  /\ UNCHANGED <<envVars, diskVars, localVars, waitVars, cycleStart,
                 finalizedFrom, flagCalls, crashVars>>

\* ------------------------------------------------------------- finalize_update
\* os.sync() at lines 50 and 56, reached from lines 112 and 118
SyncStep_noflush(from, to) ==
  /\ pc = from
  /\ pc' = to
  /\ UNCHANGED <<envVars, diskVars, localVars, waitVars,
                 cyclePublished, cycleStart, finalizedFrom, crashVars, published>>

SyncStep(from, to) ==
  /\ pc = from
  /\ finDisk' = Synced(finalized)
  /\ pc' = to
  /\ UNCHANGED <<envVars, staging, finalized, localVars, waitVars,
                 cyclePublished, cycleStart, finalizedFrom, crashVars, published>>

\* line 112 -> line 50
FinSync1 == SyncStep("fin_sync1", "fin_unlink") /\ flagCalls' = flagCalls + 1

\* line 55: unlink the marker (missing_ok)
FinUnlink_skip ==
  /\ pc = "fin_unlink"
  /\ pc' = "fin_sync2"
  /\ UNCHANGED <<envVars, diskVars, localVars, waitVars, histVars, crashVars,
                 published>>

FinUnlink ==
  /\ pc = "fin_unlink"
  /\ WriteEntry(MarkerFile, NoFile)
  /\ pc' = "fin_sync2"
  /\ UNCHANGED <<envVars, staging, localVars, waitVars, histVars, crashVars,
                 published>>

\* line 56
FinSync2 == SyncStep("fin_sync2", "fin_rm") /\ UNCHANGED flagCalls

\* lines 114-115: rmtree removes one more entry, the directory last
FinRmStep ==
  /\ pc = "fin_rm"
  /\ finalized[DirEntry] # NoFile
  /\ IF \E e \in FinEntries \ {DirEntry} : finalized[e] # NoFile
       THEN \E e \in FinEntries \ {DirEntry} :
              /\ finalized[e] # NoFile
              /\ WriteEntry(e, NoFile)
       ELSE WriteEntry(DirEntry, NoFile)
  /\ UNCHANGED <<envVars, staging, localVars, waitVars, histVars, crashVars,
                 published, pc>>

\* line 114 false, or line 115 done: go on to copytree of CASYNC_PATH
FinRmDone ==
  /\ pc = "fin_rm"
  /\ finalized[DirEntry] = NoFile
  /\ finalizedFrom' = staging
  /\ pc' = "fin_copy"
  /\ UNCHANGED <<envVars, diskVars, localVars, waitVars, cyclePublished,
                 cycleStart, flagCalls, crashVars, published>>

\* line 116: copytree creates FINALIZED, then copies one more file
FinCopyStep ==
  /\ pc = "fin_copy"
  /\ IF finalized[DirEntry] = NoFile
       THEN WriteEntry(DirEntry, Present)
       ELSE \E f \in Files :
              /\ finalized[f] # staging[f]
              /\ WriteEntry(f, staging[f])
  /\ UNCHANGED <<envVars, staging, localVars, waitVars, histVars, crashVars,
                 published, pc>>

\* line 116 done
FinCopyDone_early ==
  /\ pc = "fin_copy"
  /\ finalized[DirEntry] # NoFile
  /\ pc' = "fin_sync3"
  /\ UNCHANGED <<envVars, diskVars, localVars, waitVars, histVars, crashVars,
                 published>>

FinCopyDone ==
  /\ pc = "fin_copy"
  /\ finalized[DirEntry] # NoFile
  /\ FilesOfFinalized(finalized) = staging
  /\ pc' = "fin_sync3"
  /\ UNCHANGED <<envVars, diskVars, localVars, waitVars, histVars, crashVars,
                 published>>

\* lines 115-116: rmtree or copytree raises (I/O error, disk full)
FinalizeFail ==
  /\ pc \in {"fin_rm", "fin_copy"}
  /\ Raise("finalize")
  /\ UNCHANGED <<envVars, diskVars, histVars, published>>

\* a set_consistent_flag(True) without its first os.sync()
FinSync3_noflush ==
  SyncStep_noflush("fin_sync3", "fin_touch") /\ flagCalls' = flagCalls + 1

\* line 118 -> line 50
FinSync3 == SyncStep("fin_sync3", "fin_touch") /\ flagCalls' = flagCalls + 1

\* line 53: touch the marker
FinTouch ==
  /\ pc = "fin_touch"
  /\ WriteEntry(MarkerFile, Present)
  /\ pc' = "fin_sync4"
  /\ UNCHANGED <<envVars, staging, localVars, waitVars, histVars, crashVars,
                 published>>

\* line 56
FinSync4 == SyncStep("fin_sync4", "post") /\ UNCHANGED flagCalls

\* ------------------------------------------------------------- main(), the end
\* lines 169-173: re-read the marker, publish IDLE
Post ==
  /\ pc = "post"
  /\ update_ready' = get_consistent_flag(finalized)
  /\ set_status_params(IDLE, update_available, get_consistent_flag(finalized))
  /\ pc' = "reset"
  /\ UNCHANGED <<envVars, diskVars, target_channel, user_requested_check,
                 update_available, remote_build_metadata, remote_manifest,
                 waitVars, cycleStart, finalizedFrom, flagCalls, crashVars>>

\* line 177: the one-shot user request is reset.  The iteration is over: its
\* locals are dead (each is assigned again before it is read, lines 131-149)
\* and its history is forgotten
ResetRequest ==
  /\ pc = "reset"
  /\ user_request' = REQ_NONE
  /\ pc' = "sleep"
  /\ DeadLocals
  /\ cyclePublished' = << >>
  /\ cycleStart' = NoCycle
  /\ flagCalls' = 0
  /\ UNCHANGED <<envVars, diskVars, ready_event, finalizedFrom, crashVars,
                 published>>

\* line 178: sleep ends by the wake event or by the timeout
Wake ==
  /\ pc = "sleep"
  /\ pc' = "loop"
  /\ UNCHANGED <<envVars, diskVars, localVars, waitVars, histVars, crashVars,
                 published>>

\* ------------------------------------------------------------- environment
\* The request is read at line 138 and reset at line 177, the event is cleared
\* at line 129: a signal between lines 129 and 138 is one at "check", a signal
\* between lines 138 and 177 is one at "reset", a signal after line 177 and
\* before the next line 129 is one at "sleep"
SignalPoints == {"check", "reset", "sleep"}

\* the signal handler of WaitTimeHelper: record the request, set the event
Signal(req) ==
  /\ pc \in SignalPoints
  /\ user_request' = req
  /\ ready_event' = TRUE
  /\ UNCHANGED <<envVars, diskVars, localVars, histVars, crashVars, published, pc>>

\* the user selects a target channel (Params UpdaterTargetBranch).  The
\* parameter is read at line 131 only
SetTargetBranch(ch) ==
  /\ pc = "loop"
  /\ targetParam # ch
  /\ targetParam' = ch
  /\ UNCHANGED <<baseVars, diskVars, localVars, waitVars, histVars, crashVars,
                 published, pc>>

\* where an interruption finds the directories in the middle of a change:
\* download_update and finalize_update (elsewhere it only restarts the loop)
Interruptible ==
  {"download", "fin_sync1", "fin_unlink", "fin_sync2", "fin_rm", "fin_copy",
   "fin_sync3", "fin_touch", "fin_sync4", "post"}

\* the process is killed
Kill ==
  /\ pc \in Interruptible
  /\ pc' = "crashed"
  /\ crashedAt' = pc
  /\ crashCause' = "interrupt"
  /\ DeadLocals
  /\ user_request' = REQ_NONE
  /\ ready_event' = FALSE
  /\ UNCHANGED <<envVars, diskVars, histVars, published>>

\* what FINALIZED can hold after a power cut: per entry, any content written
\* since the last flush; no entry outlives its directory
AfterPowerCut ==
  {t \in [FinEntries -> UNION {finDisk[e] : e \in FinEntries}] :
     /\ \A e \in FinEntries : t[e] \in finDisk[e]
     /\ t[DirEntry] = NoFile => t = EmptyFinalized}

\* the power is cut
PowerLoss ==
  /\ pc \in Interruptible
  /\ \E t \in AfterPowerCut :
       /\ finalized' = t
       /\ finDisk' = Synced(t)
  /\ pc' = "crashed"
  /\ crashedAt' = pc
  /\ crashCause' = "interrupt"
  /\ DeadLocals
  /\ user_request' = REQ_NONE
  /\ ready_event' = FALSE
  /\ UNCHANGED <<envVars, staging, histVars, published>>

\* the process manager starts updated again
Restart ==
  /\ pc = "crashed"
  /\ pc' = "start"
  /\ crashedAt' = "-"
  /\ crashCause' = "-"
  /\ cyclePublished' = << >>
  /\ cycleStart' = NoCycle
  /\ flagCalls' = 0
  /\ finalizedFrom' = IF Present \in finDisk[MarkerFile] THEN finalizedFrom ELSE EmptyTree
  /\ UNCHANGED <<envVars, diskVars, localVars, waitVars, published>>

\* ------------------------------------------------------------- specification
Next ==
  \/ Start
  \/ LoopTop
  \/ LoopCheck
  \/ \E c \in Commits, hasPath \in BOOLEAN : FetchOK(c, hasPath)
  \/ FetchFail
  \/ Decide
  \/ ExtractStep
  \/ ExtractFail
  \/ ExtractDone
  \/ FinSync1
  \/ FinUnlink
  \/ FinSync2
  \/ FinRmStep
  \/ FinRmDone
  \/ FinCopyStep
  \/ FinCopyDone
  \/ FinalizeFail
  \/ FinSync3
  \/ FinTouch
  \/ FinSync4
  \/ Post
  \/ ResetRequest
  \/ Wake
  \/ \E req \in {REQ_CHECK, REQ_FETCH} : Signal(req)
  \/ \E ch \in Channels : SetTargetBranch(ch)
  \/ Kill
  \/ PowerLoss
  \/ Restart

Spec == Init /\ [][Next]_vars

\* main() is a running process: the statements between two blocking calls are
\* executed, and wait_helper.sleep(UPDATE_DELAY) returns after the delay at
\* the latest (line 178).  Nothing is assumed of the remote, of the user, of
\* the external commands or of the process manager.
LoopFairness ==
  /\ WF_vars(ResetRequest)
  /\ WF_vars(Wake)
  /\ WF_vars(LoopTop)
  /\ WF_vars(LoopCheck)

FairSpec == Spec /\ LoopFairness

\* ------------------------------------------------------------- properties
Marker == get_consistent_flag(finalized)
StatesPublished == {cyclePublished[i].state : i \in 1..Len(cyclePublished)}

\* the program points of finalize_update (lines 112-118)
FinalizePoints ==
  {"fin_sync1", "fin_unlink", "fin_sync2", "fin_rm", "fin_copy", "fin_sync3",
   "fin_touch", "fin_sync4"}

\* FINALIZED holds exactly the tree t
HoldsTree(fin, t) == fin[DirEntry] # NoFile /\ FilesOfFinalized(fin) = t

\* C1: the marker is present only over a complete copy of the staging tree
\* that copytree was given, in every state: at every point of
\* finalize_update, after an interruption or a power cut there, and after a
\* copy that failed partway; while FINALIZED is being removed or written, and
\* after a failure or interruption then, the marker is absent.
C1_MarkerOnlyOnCompleteCopy ==
  /\ Marker => HoldsTree(finalized, finalizedFrom)
  /\ pc \in {"fin_rm", "fin_copy", "fin_sync3", "fin_touch"} => ~Marker
  /\ (pc = "crashed" /\ crashedAt \in {"fin_rm", "fin_copy", "fin_sync3", "fin_touch"})
       => ~Marker

\* a finalize_update that found the leftovers of a failed copy has set the marker
C1_Witness ==
  /\ pc = "post"
  /\ Marker
  /\ ~get_consistent_flag(cycleStart.finalized)
  /\ cycleStart.finalized["data"] # NoFile
  /\ cycleStart.finalized["meta"] = NoFile

\* an interruption (kill, power cut, exception) inside finalize_update
InterruptedInFinalize == pc = "crashed" /\ crashedAt \in FinalizePoints
OldContent == FilesOfFinalized(finalized) = FilesOfFinalized(cycleStart.finalized)
                /\ finalized[DirEntry] = cycleStart.finalized[DirEntry]
NewContent == HoldsTree(finalized, staging)

\* C2 as stated: after an interruption of finalize_update FINALIZED holds
\* fully the old content with the marker absent, or fully the new content
\* with the marker present.
C2_OldUnmarkedOrNewMarked ==
  InterruptedInFinalize =>
    \/ OldContent /\ ~Marker
    \/ NewContent /\ Marker

\* C2 amended: after an interruption of finalize_update, if the marker is
\* present then FINALIZED holds fully the new content (the interruption came
\* after the marker was written) or fully the content it held before the
\* cycle, a complete copy (the interruption came before the removal of the
\* marker reached storage); never a mix.  With the marker absent FINALIZED
\* may hold the old content, a part of either, or nothing.
C2_MarkedIsWhole ==
  (InterruptedInFinalize /\ Marker) =>
    \/ NewContent /\ crashedAt = "fin_sync4"
    \/ /\ OldContent
       /\ HoldsTree(finalized, finalizedFrom)
       /\ crashedAt \in {"fin_sync1", "fin_unlink", "fin_sync2"}

\* copytree was interrupted over a tree that was ready: a partial copy, no marker
C2_Witness ==
  /\ InterruptedInFinalize
  /\ crashedAt = "fin_copy"
  /\ get_consistent_flag(cycleStart.finalized)
  /\ ~Marker
  /\ finalized["data"] = staging["data"]
  /\ finalized["meta"] = NoFile

\* the loop iteration failed: the fetch failed, or casync extract raised, or
\* rmtree or copytree raised
FetchFailed == pc = "reset" /\ remote_build_metadata = NoneMeta
ExtractFailed == pc = "crashed" /\ crashCause = "extract"
FinalizeFailed == pc = "crashed" /\ crashCause = "finalize"
FailedCycle == FetchFailed \/ ExtractFailed \/ FinalizeFailed

Identity(tree) == get_build_metadata(tree)

\* C4 as stated: check_update_available is false iff the directory's
\* (channel, commit) equals the remote's, for BASEDIR and for FINALIZED.
C4_IdentityEquivalence ==
  pc = "decide" =>
    /\ check_update_available(basedir, remote_build_metadata)
         = (Identity(basedir) # remote_build_metadata)
    /\ check_update_available(FilesOfFinalized(finalized), remote_build_metadata)
         = (Identity(FilesOfFinalized(finalized)) # remote_build_metadata)

\* C5: after a successful fetch, with the marker present and the finalized
\* tree's identity equal to the remote's, IDLE is published with
\* update_fetch_available false, whatever the running build is.
C5_ReadySuppression ==
  (/\ pc = "decide"
   /\ Marker
   /\ Identity(FilesOfFinalized(finalized)) = remote_build_metadata) =>
    /\ published.state = IDLE
    /\ published.fetch_available = FALSE
    /\ update_available = FALSE

\* the suppression acts: the running build differs from the remote's
C5_Witness ==
  /\ pc = "decide"
  /\ Marker
  /\ Identity(FilesOfFinalized(finalized)) = remote_build_metadata
  /\ Identity(basedir).commit # remote_build_metadata.commit
  /\ published = StatusParams(IDLE, FALSE, TRUE)

\* C6: a cycle whose fetch fails publishes FAILED with both flags false, ends
\* without DOWNLOADING or FINALIZING, and leaves CASYNC_PATH, FINALIZED and the
\* marker as they were.
C6_FetchFailure ==
  FetchFailed =>
    /\ published = StatusParams(FAILED, FALSE, FALSE)
    /\ cyclePublished = <<StatusParams(CHECKING, FALSE, FALSE),
                          StatusParams(FAILED, FALSE, FALSE)>>
    /\ staging = cycleStart.staging
    /\ finalized = cycleStart.finalized
    /\ flagCalls = 0

\* the fetch failed with a ready tree on disk
C6_Witness ==
  /\ FetchFailed
  /\ Marker
  /\ update_ready

\* C7 as stated: when the extraction fails, FAILED is published and the loop
\* goes on.
C7_ExtractFailurePublishesFailed ==
  (crashCause = "extract") =>
    /\ published.state = FAILED
    /\ pc # "crashed"

\* C8: when the extraction fails, FINALIZED and the marker are as before the
\* cycle, and neither finalize_update nor set_consistent_flag was called.
C8_ExtractFailureFrame ==
  ExtractFailed =>
    /\ finalized = cycleStart.finalized
    /\ flagCalls = 0
    /\ FINALIZING \notin StatesPublished

\* the extraction failed partway with a ready tree on disk
C8_Witness ==
  /\ ExtractFailed
  /\ Marker
  /\ staging # cycleStart.staging
  /\ staging["meta"] # staging["data"]

\* a cycle run with the user's "check only" request has ended, its fetch
\* having succeeded
CheckOnlyCycleDone ==
  pc = "reset" /\ user_requested_check /\ remote_build_metadata # NoneMeta
\* the remote serves a commit that the running build does not have
RemoteIsNewer == remote_build_metadata.commit # Identity(basedir).commit
\* a ready finalized tree already carries the remote's commit
ReadyTreeMatches(fin) ==
  /\ get_consistent_flag(fin)
  /\ Identity(FilesOfFinalized(fin)).commit = remote_build_metadata.commit
\* a check-only cycle publishes nothing but CHECKING and IDLE, and leaves
\* CASYNC_PATH, FINALIZED and the marker alone
CheckOnlyFrame ==
  /\ DOWNLOADING \notin StatesPublished
  /\ FINALIZING \notin StatesPublished
  /\ staging = cycleStart.staging
  /\ finalized = cycleStart.finalized
  /\ flagCalls = 0
  /\ published.state = IDLE
  /\ published.ready = Marker
  /\ Len(cyclePublished) = 3
  /\ cyclePublished[2] = published
  /\ cyclePublished[3] = published

\* C9 as stated: a check-only cycle never enters DOWNLOADING or FINALIZING,
\* modifies neither directory nor the marker, and ends publishing IDLE with a
\* pair fixed by the unchanged state; when the remote has a newer release the
\* pair is (true, ready as on disk).
C9_CheckOnlyNewerIsAvailable ==
  CheckOnlyCycleDone =>
    /\ CheckOnlyFrame
    /\ RemoteIsNewer => published = StatusParams(IDLE, TRUE, Marker)

\* C9 amended: as stated, but when the remote has a newer release the pair is
\* (true, ready as on disk) only if no ready finalized tree carries the
\* remote's commit already; if one does, the pair is (false, true).  In every
\* case the pair is a function of BASEDIR, FINALIZED and the remote alone, so
\* consecutive cycles over unchanged state publish the same pair.
C9_CheckOnlyIdempotent ==
  CheckOnlyCycleDone =>
    /\ CheckOnlyFrame
    /\ published.fetch_available =
         (RemoteIsNewer /\ ~ReadyTreeMatches(finalized))
    /\ (RemoteIsNewer /\ ~ReadyTreeMatches(finalized))
         => published = StatusParams(IDLE, TRUE, Marker)
    /\ (RemoteIsNewer /\ ReadyTreeMatches(finalized))
         => published = StatusParams(IDLE, FALSE, TRUE)

\* a check-only cycle found a newer release while an older tree was ready,
\* and downloaded nothing
C9_Witness ==
  /\ CheckOnlyCycleDone
  /\ RemoteIsNewer
  /\ Marker
  /\ ~ReadyTreeMatches(finalized)
  /\ published = StatusParams(IDLE, TRUE, TRUE)

\* C10 as stated: a background cycle whose fetch, extraction and finalize
\* succeed, with the remote's release different from the running build's and
\* no matching finalized tree ready, publishes CHECKING, IDLE with
\* update_fetch_available true, DOWNLOADING, FINALIZING, IDLE, ends with IDLE,
\* (false, true), and FINALIZED carries the remote's identity.
C10_BackgroundCycleDownloads ==
  (/\ pc = "reset"
   /\ ~user_requested_check
   /\ remote_build_metadata # NoneMeta
   /\ remote_manifest.hasPath
   /\ remote_build_metadata # Identity(basedir)
   /\ ~(/\ get_consistent_flag(cycleStart.finalized)
        /\ Identity(FilesOfFinalized(cycleStart.finalized)) = remote_build_metadata)) =>
    /\ cyclePublished =
         <<StatusParams(CHECKING, FALSE, FALSE),
           StatusParams(IDLE, TRUE, get_consistent_flag(cycleStart.finalized)),
           StatusParams(DOWNLOADING, FALSE, FALSE),
           StatusParams(FINALIZING, FALSE, FALSE),
           StatusParams(IDLE, FALSE, TRUE)>>
    /\ published = StatusParams(IDLE, FALSE, TRUE)
    /\ Marker
    /\ Identity(FilesOfFinalized(finalized)) = remote_build_metadata

\* C11: whenever FAILED is published, the sleep ending by its timer or by a
\* wake signal, the loop starts another cycle and publishes CHECKING, which
\* brings it to the next fetch; and a cycle whose fetch succeeds (the first
\* after a failure like any other) publishes IDLE with update_fetch_available
\* computed from the remote's answer, BASEDIR and FINALIZED as they are, and
\* update_ready as the marker is.
C11_FailedIsRecoverable ==
  /\ (published.state = FAILED)
       ~> (pc = "fetch" /\ published = StatusParams(CHECKING, FALSE, FALSE))
  /\ [](pc = "decide" =>
         published = StatusParams(IDLE,
                                  RemoteIsNewer /\ ~ReadyTreeMatches(finalized),
                                  Marker))

\* FAILED is published and the loop sleeps, a ready tree on disk
C11_Witness ==
  /\ published = StatusParams(FAILED, FALSE, FALSE)
  /\ pc = "sleep"
  /\ Marker

\* C12 as stated: with BASEDIR a git working copy, a background cycle whose
\* fetch and extraction succeed ends at IDLE with update_fetch_available
\* false, update_ready true and FINALIZED holding the remote's release, also
\* when the working copy declares the release the remote serves.
C12_GitBaseIsReplaced ==
  (/\ baseIsGit
   /\ pc = "reset"
   /\ ~user_requested_check
   /\ remote_build_metadata # NoneMeta
   /\ HasPathEntry(remote_manifest)) =>
    /\ published = StatusParams(IDLE, FALSE, TRUE)
    /\ Marker
    /\ HoldsTree(finalized, TargetTree(remote_manifest))

\* the remote's identity is the running build's: same channel, same commit
RemoteIsRunning == remote_build_metadata = Identity(basedir)

\* C13: a cycle whose fetch succeeds with the remote's identity equal to the
\* running build's never enters DOWNLOADING or FINALIZING, leaves CASYNC_PATH,
\* FINALIZED and the marker unchanged, and ends publishing IDLE with
\* update_fetch_available false and update_ready as the marker is: false when
\* there is no finalized tree.
C13_NoSpuriousDownload ==
  /\ (pc \in FinalizePoints \cup {"download", "post"}) => ~RemoteIsRunning
  /\ (pc = "reset" /\ RemoteIsRunning) =>
       /\ cyclePublished = <<StatusParams(CHECKING, FALSE, FALSE),
                             StatusParams(IDLE, FALSE, Marker),
                             StatusParams(IDLE, FALSE, Marker)>>
       /\ published = StatusParams(IDLE, FALSE, Marker)
       /\ staging = cycleStart.staging
       /\ finalized = cycleStart.finalized
       /\ flagCalls = 0
       /\ (finalized[DirEntry] = NoFile => ~published.ready)

\* a background cycle found the running build on the remote, nothing finalized
C13_Witness ==
  /\ pc = "reset"
  /\ RemoteIsRunning
  /\ ~user_requested_check
  /\ finalized[DirEntry] = NoFile
  /\ published = StatusParams(IDLE, FALSE, FALSE)

\* the storage holds the marker as absent, whatever happens to the power
MarkerClearedOnStorage == finDisk[MarkerFile] = {NoFile}
\* the storage holds the copy of the staging tree, whatever happens
CopyOnStorage ==
  /\ finDisk[DirEntry] = {Present}
  /\ \A f \in Files : finDisk[f] = {staging[f]}
\* a step changes the directory FINALIZED or a file in it
ContentChanges ==
  \/ FilesOfFinalized(finalized') # FilesOfFinalized(finalized)
  \/ finalized'[DirEntry] # finalized[DirEntry]

\* C14: in finalize_update the marker is cleared and the clearing flushed
\* before anything of FINALIZED is removed or written; when copytree is done
\* FINALIZED is a full copy of the staging tree; the copy is flushed before
\* the marker is set; the marker is flushed after it is set; and no step
\* changes the content of FINALIZED while the marker is present.
C14_FinalizeOrdering ==
  /\ [](pc \in {"fin_rm", "fin_copy"} => ~Marker /\ MarkerClearedOnStorage)
  /\ [](pc = "fin_sync3" => ~Marker /\ HoldsTree(finalized, staging))
  /\ [](pc = "fin_touch" =>
          ~Marker /\ MarkerClearedOnStorage /\ HoldsTree(finalized, staging)
          /\ CopyOnStorage)
  /\ [](pc = "fin_sync4" => Marker /\ HoldsTree(finalized, staging) /\ CopyOnStorage)
  /\ [](pc = "post" => Marker /\ finDisk = Synced(finalized) /\ CopyOnStorage)
  /\ [][ContentChanges => ~Marker /\ ~get_consistent_flag(finalized')]_vars

\* finalize_update has replaced a tree that was ready by another release
C14_Witness ==
  /\ pc = "post"
  /\ Marker
  /\ get_consistent_flag(cycleStart.finalized)
  /\ cycleStart.finalized["meta"] \in Releases
  /\ finalized["meta"] \in Releases
  /\ finalized["meta"] # cycleStart.finalized["meta"]

\* a "check now" was delivered while the cycle was in progress: the request
\* is there at the end of the cycle, and the cycle itself had read none
CheckRequestedMidCycle ==
  pc = "reset" /\ user_request = REQ_CHECK /\ ~user_requested_check

\* C15 as stated: a request delivered while a cycle is in progress is not
\* lost: it is still there when the cycle is over and the loop goes to sleep,
\* for the next cycle to read at line 138.
C15_MidCycleRequestKept ==
  [][(CheckRequestedMidCycle /\ pc' = "sleep") => user_request' = REQ_CHECK]_vars

\* main() enters download_update (lines 159-161, 98-104)
DownloadBegins == pc = "decide" /\ pc' = "download"

\* C16 as stated: every download attempt starts from a cleared staging area:
\* when the extraction begins CASYNC_PATH holds nothing of an earlier
\* attempt.
C16_DownloadStartsCleared ==
  [][DownloadBegins => staging' = EmptyTree]_vars

\* the cycle began with release R finalized and marked ready, and its fetch
\* found the remote serving R
ReadyReleaseIsServed ==
  /\ remote_build_metadata # NoneMeta
  /\ get_consistent_flag(cycleStart.finalized)
  /\ Identity(FilesOfFinalized(cycleStart.finalized)) = remote_build_metadata

\* C17: a cycle, background or user-requested, that begins with release R
\* finalized and marked ready while the remote serves R never enters
\* DOWNLOADING or FINALIZING, and leaves FINALIZED and the marker as they are,
\* whatever the running build is.
C17_NoRepeatedDownload ==
  /\ (pc \in FinalizePoints \cup {"download", "post"}) => ~ReadyReleaseIsServed
  /\ (pc = "reset" /\ ReadyReleaseIsServed) =>
       /\ DOWNLOADING \notin StatesPublished
       /\ FINALIZING \notin StatesPublished
       /\ flagCalls = 0
       /\ finalized = cycleStart.finalized
       /\ Marker
       /\ published = StatusParams(IDLE, FALSE, TRUE)

\* a background cycle left alone the ready release the remote still serves,
\* the running build being another one
C17_Witness ==
  /\ pc = "reset"
  /\ ReadyReleaseIsServed
  /\ ~user_requested_check
  /\ remote_build_metadata.commit # Identity(basedir).commit
  /\ Len(cyclePublished) = 3

\* C18: in every state a published update_ready of true has the marker
\* present in FINALIZED; while the published state is IDLE the published
\* update_ready is the marker's presence; CHECKING, DOWNLOADING, FINALIZING
\* and FAILED are published with update_ready false.
C18_ReadyNeverOverstates ==
  /\ published.ready => Marker
  /\ published.state = IDLE => published.ready = Marker
  /\ published.state # IDLE => ~published.ready

\* a cycle that published IDLE with update_ready true has gone on to replace
\* the ready tree: the marker is cleared, and update_ready is published false
C18_Witness ==
  /\ pc = "fin_rm"
  /\ get_consistent_flag(cycleStart.finalized)
  /\ Len(cyclePublished) = 4
  /\ cyclePublished[2] = StatusParams(IDLE, TRUE, TRUE)
  /\ ~Marker
  /\ ~published.ready

\* C19 as stated: a cycle that passed through FINALIZING and ends with the
\* marker present has in FINALIZED the identity of the remote release it
\* fetched, for every manifest, one without a "path" entry for
\* /data/openpilot included.
C19_ReadyIsWhatWasFetched ==
  (pc = "reset" /\ FINALIZING \in StatesPublished /\ Marker) =>
    Identity(FilesOfFinalized(finalized)) = remote_build_metadata

====
